---------------------------- MODULE Spec2Model ----------------------------
(***************************************************************************)
(* Authentication gateway (utils/auth.ts), profile reconciler              *)
(* (utils/users.ts, two variants) and error normalizer                     *)
(* (utils/auth-errors.ts) of the Kanban application.                       *)
(*                                                                         *)
(* Three specifications share the variables:                               *)
(*   SpecNormalizer  getAuthError applied to a bounded set of error values *)
(*   Spec            one gateway flow calling the auth operations in       *)
(*                   sequence, against the provider, the users table, the  *)
(*                   backend trigger and profile updates                   *)
(*   SpecReconcile   NumRuns concurrent captureUserDetails runs for one    *)
(*                   authenticated user, against the same backend          *)
(***************************************************************************)
EXTENDS Integers, Sequences, FiniteSets, TLC

VARIABLES
    errIn,      \* the value handed to getAuthError
    errOut,     \* what getAuthError returned for it (NotCalled before)
    authUser,   \* the auth provider's record of the one authenticated user
    variant,    \* which users module is deployed: query-first or wait-then-query
    users,      \* the rows of the "users" table
    sync,       \* position of an updateProfile call of the profile page
    pc,         \* per flow: where the operation it runs is suspended
    op,         \* per flow: the operation it runs
    req,        \* per flow: the arguments of the operation
    argUser,    \* per flow: the user handed to captureUserDetails
    pending,    \* per flow: the userData prepared for the upsert
    rowAtEntry, \* per flow: whether the profile row existed when
                \* captureUserDetails was entered (observation only)
    trace,      \* per flow: backend calls settled in the current operation
    outcome     \* per flow: what the operation returned or threw

vars == <<errIn, errOut, authUser, variant, users, sync, pc, op, req,
          argUser, pending, rowAtEntry, trace, outcome>>

(***************************************************************************)
(* JavaScript strings: TLC strings with SubSeq, Head, Tail, Len and \o.    *)
(***************************************************************************)
Upper == "ABCDEFGHIJKLMNOPQRSTUVWXYZ"
Lower == "abcdefghijklmnopqrstuvwxyz"

LowerChar(c) ==
    IF \E i \in 1..Len(Upper) : SubSeq(Upper, i, i) = c
    THEN LET i == CHOOSE j \in 1..Len(Upper) : SubSeq(Upper, j, j) = c
         IN  SubSeq(Lower, i, i)
    ELSE c

RECURSIVE toLowerCase(_)
toLowerCase(s) ==
    IF s = "" THEN "" ELSE LowerChar(Head(s)) \o toLowerCase(Tail(s))

\* String.prototype.includes
includes(s, t) ==
    \E i \in 1..(Len(s) - Len(t) + 1) : SubSeq(s, i, i + Len(t) - 1) = t

\* s.split(sep)[0] for a one-character separator: the text before the first
\* separator, the whole string when there is none.
RECURSIVE splitFirst(_, _)
splitFirst(s, sep) ==
    IF s = "" \/ Head(s) = sep THEN ""
    ELSE Head(s) \o splitFirst(Tail(s), sep)

(***************************************************************************)
(* Error values.  A missing (undefined) string field is "", a missing      *)
(* status is NoStatus; both are falsy in the code's tests, like the        *)
(* values they stand for.                                                  *)
(***************************************************************************)
NoStatus == 0

\* null / undefined passed as the error
Absent == [absent |-> TRUE]

Err(m, c, s) == [message |-> m, code |-> c, status |-> s]

MsgUnexpected == "An unexpected error occurred"
MsgAlreadyRegistered ==
    "This email is already registered. Please try logging in instead."
MsgAlreadyInUse ==
    "This email is already in use. Please try logging in instead."
MsgInvalidEmail == "The email address is invalid."
MsgWeakPassword == "Password is too weak. Please use at least 6 characters."
MsgNoAccount == "No account found with this email address."
MsgWrongPassword == "Incorrect password. Please try again."
MsgAccountNotFound == "Account not found. Please check your email address."
MsgBadLogin == "Incorrect email or password. Please try again."
MsgConfirmEmail ==
    "Please check your email to confirm your account before logging in."
MsgPermission ==
    "Account creation failed due to permission issues. Please contact support."
MsgConstraint ==
    "Account creation failed due to database constraints. Please try again or contact support."

\* the switch over err.code; m is the message so far
codeSwitch(code, m) ==
    CASE code = "23505" -> MsgAlreadyRegistered
      [] code \in {"auth/email-already-in-use", "email-already-in-use"} ->
            MsgAlreadyInUse
      [] code = "auth/invalid-email" -> MsgInvalidEmail
      [] code = "auth/weak-password" -> MsgWeakPassword
      [] code = "auth/user-not-found" -> MsgNoAccount
      [] code = "auth/wrong-password" -> MsgWrongPassword
      [] code = "user-not-found" -> MsgAccountNotFound
      [] OTHER -> m

\* the if / else-if chain over the message text
friendly(m) ==
    IF \/ includes(m, "duplicate key")
       \/ includes(m, "already registered")
       \/ includes(m, "already in use")
       \/ includes(m, "already exists")
    THEN MsgAlreadyRegistered
    ELSE IF \/ includes(toLowerCase(m), "invalid login")
            \/ includes(toLowerCase(m), "invalid credentials")
    THEN MsgBadLogin
    ELSE IF includes(m, "email") /\ includes(m, "confirmation")
    THEN MsgConfirmEmail
    ELSE IF \/ includes(toLowerCase(m), "permission")
            \/ includes(toLowerCase(m), "not authorized")
            \/ includes(toLowerCase(m), "rls")
            \/ includes(toLowerCase(m), "policy")
    THEN MsgPermission
    ELSE IF \/ includes(toLowerCase(m), "constraint")
            \/ includes(toLowerCase(m), "foreign key")
    THEN MsgConstraint
    ELSE m

getAuthError(error) ==
    IF error = Absent
    THEN [message |-> MsgUnexpected, status |-> NoStatus]
    ELSE IF error.message # ""
    THEN LET m1 == IF error.code # ""
                   THEN codeSwitch(error.code, error.message)
                   ELSE error.message
         IN  [message |-> friendly(m1), status |-> error.status]
    ELSE [message |-> MsgUnexpected, status |-> NoStatus]

(***************************************************************************)
(* SpecNormalizer: getAuthError over a bounded set of error values.        *)
(***************************************************************************)
KnownCodes ==
    {"23505", "auth/email-already-in-use", "email-already-in-use",
     "auth/invalid-email", "auth/weak-password", "auth/user-not-found",
     "auth/wrong-password", "user-not-found"}

SampleCodes == KnownCodes \cup {"", "42501"}

SampleMessages ==
    {"",
     "duplicate key value violates unique constraint",
     "User already registered",
     "Invalid login credentials",
     "Please check your email for the confirmation link",
     "new row violates row-level security policy",
     "insert or update violates foreign key constraint",
     "Failed to fetch"}

SampleStatuses == {NoStatus, 400}

SampleErrors ==
    {Err(m, c, s) : m \in SampleMessages, c \in SampleCodes,
                    s \in SampleStatuses} \cup {Absent}

NotCalled == [called |-> FALSE]

(***************************************************************************)
(* Auth-provider users and profile rows.                                   *)
(***************************************************************************)
NumRuns == 2

GatewayFlow == 0
Runs == 1..NumRuns
Flows == {GatewayFlow} \cup Runs

\* data.user = null
NullUser == [null |-> TRUE]

AuthUser(id, email, fullName, avatarUrl, provider) ==
    [id |-> id, email |-> email,
     user_metadata |-> [full_name |-> fullName, avatar_url |-> avatarUrl],
     app_metadata |-> [provider |-> provider]]

\* the records the provider can hold for the authenticated user
AuthUsers ==
    {AuthUser("u1", "jane@example.com", "", "", ""),
     AuthUser("u1", "jane@example.com", "Jane Doe", "https://cdn.example/j.png",
              "github"),
     AuthUser("u1", "", "", "https://cdn.example/j.png", "google"),
     AuthUser("u1", "@example.com", "", "", "email"),
     AuthUser("", "jane@example.com", "", "", "")}

Variants == {"queryFirst", "waitThenQuery"}

\* a || b on strings
JsOr(a, b) == IF a # "" THEN a ELSE b

Row(id, email, name, avatar, description, provider) ==
    [id |-> id, email |-> email, name |-> name, avatar |-> avatar,
     description |-> description, provider |-> provider]

\* a plausible slip: the OAuth full name is not looked at
userDataFor_noFullName(u) ==
    Row(u.id, u.email,
        JsOr(splitFirst(u.email, "@"), "User"),
        u.user_metadata.avatar_url, "",
        JsOr(u.app_metadata.provider, "email"))

\* the userData literal of captureUserDetails, the same in both variants
userDataFor(u) ==
    Row(u.id,
        JsOr(u.email, ""),
        JsOr(u.user_metadata.full_name,
             JsOr(splitFirst(u.email, "@"), "User")),
        JsOr(u.user_metadata.avatar_url, ""),
        "",
        JsOr(u.app_metadata.provider, "email"))

\* rows of other accounts, present from the start
RealRow == Row("u8", "real@example.com", "real", "", "", "email")
OAuthRow == Row("u9", "oauth@example.com", "Olive", "", "", "github")

RowsOf(tbl, id) == {r \in tbl : r.id = id}
RowsByEmail(tbl, email) == {r \in tbl : r.email = email}

(***************************************************************************)
(* The backend's answers.  Every call either answers from the table or     *)
(* the session, or fails with one of the errors below.  An error is        *)
(* either returned in the {data, error} pair or makes the call reject.     *)
(***************************************************************************)
NoRows ==
    Err("JSON object requested, multiple (or no) rows returned", "PGRST116", 406)
Timeout == Err("upstream request timeout", "PGRST003", 504)
RlsDenied == Err("new row violates row-level security policy", "42501", 403)
UniqueViolation ==
    Err("duplicate key value violates unique constraint", "23505", 409)
InvalidLogin == Err("Invalid login credentials", "invalid_credentials", 400)
UserExists == Err("User already registered", "user_already_exists", 422)
RateLimited == Err("Request rate limit reached", "over_request_rate_limit", 429)
FetchFailed == Err("Failed to fetch", "", NoStatus)

LookupFailures == {Timeout}
UpsertFailures == {RlsDenied}
SignUpErrors == {UserExists, RateLimited}
SignInErrors == {InvalidLogin, RateLimited}
ProviderErrors == {RateLimited}
Rejections == {FetchFailed}

\* a settled call of the provider, of the access store or of
\* captureUserDetails, as the flow's trace records it
Ev(call, error, rejected) ==
    [call |-> call, error |-> error, rejected |-> rejected]

\* .from("users").select(...).eq("id", id).maybeSingle()
selectMaybeSingle(tbl, id) ==
    LET rows == RowsOf(tbl, id) IN
    IF Cardinality(rows) = 1
    THEN [data |-> CHOOSE r \in rows : TRUE, error |-> Absent]
    ELSE IF rows = {} THEN [data |-> NullUser, error |-> Absent]
    ELSE [data |-> NullUser, error |-> NoRows]

\* .from("users").select(...).eq(column, value).single()
selectSingle(rows) ==
    IF Cardinality(rows) = 1
    THEN [data |-> CHOOSE r \in rows : TRUE, error |-> Absent]
    ELSE [data |-> NullUser, error |-> NoRows]

\* a plain insert: the primary key rejects a second row with the id
DbUpsert_plainInsert(tbl, row) ==
    IF RowsOf(tbl, row.id) # {}
    THEN [rows |-> tbl, error |-> UniqueViolation]
    ELSE [rows |-> tbl \cup {row}, error |-> Absent]

\* .upsert(row) with the conflict target id and ignoreDuplicates false:
\* INSERT ... ON CONFLICT (id) DO UPDATE SET <the columns given>
DbUpsert(tbl, row) ==
    [rows |-> (tbl \ RowsOf(tbl, row.id)) \cup {row}, error |-> Absent]

\* .update(updates).eq("id", id): every matching row, none is no error
DbUpdate(tbl, id, name, description) ==
    {IF r.id = id THEN [r EXCEPT !.name = name, !.description = description]
     ELSE r : r \in tbl}

\* the row the backend trigger writes after the auth record is created: the
\* profile the client's fallback stands in for
TriggerRow(u) ==
    Row(u.id, u.email,
        JsOr(u.user_metadata.full_name, JsOr(splitFirst(u.email, "@"), "User")),
        u.user_metadata.avatar_url, "", JsOr(u.app_metadata.provider, "email"))

(***************************************************************************)
(* Results of an operation.                                                *)
(***************************************************************************)
None == [kind |-> "none"]
Returned(v) == [kind |-> "returned", value |-> v]
Thrown(v) == [kind |-> "thrown", value |-> v]

Origin == "https://app.example"

SessionData(u) == [user |-> u, session |-> "session"]

GenericSuccess ==
    [success |-> TRUE,
     message |-> "If an account exists, a password reset link will be sent."]

InvalidUserError ==
    IF variant = "queryFirst"
    THEN Err("Invalid auth user data", "", NoStatus)
    ELSE Err("Invalid auth user", "", NoStatus)

\* the catch block of signUp rethrowing what it caught
signUpCatch_rethrow(e) == e

\* the catch block of signUp
signUpCatch(e) == getAuthError(e)

\* signIn without the inner try/catch around captureUserDetails
signInAfterCapture_propagate(res, data) ==
    IF res.kind = "thrown" THEN res ELSE Returned(data)

\* signIn after captureUserDetails settled: the inner catch logs, data is returned
signInAfterCapture(res, data) == Returned(data)

\* what the caller of captureUserDetails makes of its result
afterCapture(o, res, u) ==
    CASE o = "signUp" ->
            IF res.kind = "thrown" THEN Thrown(signUpCatch(res.value))
            ELSE Returned(SessionData(u))
      [] o = "signIn" -> signInAfterCapture(res, SessionData(u))
      [] OTHER -> res

(***************************************************************************)
(* Helpers for the steps of a flow.                                        *)
(***************************************************************************)
Log(c, ev) == trace' = [trace EXCEPT ![c] = Append(@, ev)]

Goto(c, l) == pc' = [pc EXCEPT ![c] = l]

Settle(c, res) ==
    /\ pc' = [pc EXCEPT ![c] = "done"]
    /\ outcome' = [outcome EXCEPT ![c] = res]

Begin(c, o, r) ==
    /\ pc[c] = "idle"
    /\ op' = [op EXCEPT ![c] = o]
    /\ req' = [req EXCEPT ![c] = r]
    /\ trace' = [trace EXCEPT ![c] = <<>>]

\* captureUserDetails settles with res and its locals are gone; its caller
\* goes on to its own end
CaptureSettles(c, res) ==
    /\ Log(c, Ev("captureUserDetails",
                 IF res.kind = "thrown" THEN res.value ELSE Absent,
                 res.kind = "thrown"))
    /\ Settle(c, afterCapture(op[c], res, argUser[c]))
    /\ argUser' = [argUser EXCEPT ![c] = NullUser]
    /\ pending' = [pending EXCEPT ![c] = Absent]
    /\ rowAtEntry' = [rowAtEntry EXCEPT ![c] = FALSE]

(***************************************************************************)
(* captureUserDetails, called by signUp, by signIn, or on its own.         *)
(***************************************************************************)
\* Answers of the profile store to the lookup by id: the table's, or a failure
QueryAnswers(tbl, id) ==
    {IF variant = "queryFirst" THEN selectMaybeSingle(tbl, id)
     ELSE selectSingle(RowsOf(tbl, id))}
    \cup {[data |-> NullUser, error |-> e] : e \in LookupFailures}

\* what the lookup's caller receives of a row: the columns it selected
Selected(row) ==
    IF variant = "queryFirst"
    THEN [id |-> row.id, email |-> row.email, name |-> row.name]
    ELSE row

\* the test that ends captureUserDetails with the row it found
foundExisting(ans) ==
    IF variant = "queryFirst"
    THEN ans.data # NullUser
    ELSE ~(ans.error # Absent \/ ans.data = NullUser)

StartCapture(c) ==
    /\ Begin(c, "capture", [user |-> authUser])
    /\ argUser' = [argUser EXCEPT ![c] = authUser]
    /\ Goto(c, "capture_call")
    /\ UNCHANGED <<errIn, errOut, authUser, variant, users, sync, pending,
                   rowAtEntry, outcome>>

\* entry of captureUserDetails up to its first await
CaptureEnter(c) ==
    /\ pc[c] = "capture_call"
    /\ IF argUser[c] = NullUser \/ argUser[c].id = ""
       THEN CaptureSettles(c, Thrown(InvalidUserError))
       ELSE /\ rowAtEntry' =
                 [rowAtEntry EXCEPT ![c] = RowsOf(users, argUser[c].id) # {}]
            /\ Goto(c, IF variant = "queryFirst" THEN "capture_query"
                       ELSE "capture_wait")
            /\ UNCHANGED <<argUser, pending, trace, outcome>>
    /\ UNCHANGED <<errIn, errOut, authUser, variant, users, sync, op, req>>

\* the one-second timer of the wait-then-query variant fires
CaptureTimer(c) ==
    /\ pc[c] = "capture_wait"
    /\ Goto(c, "capture_query")
    /\ UNCHANGED <<errIn, errOut, authUser, variant, users, sync, op, req,
                   argUser, pending, rowAtEntry, trace, outcome>>

\* the lookup by id settles
CaptureQuery(c) ==
    /\ pc[c] = "capture_query"
    /\ \E ans \in QueryAnswers(users, argUser[c].id) :
          IF foundExisting(ans)
          THEN CaptureSettles(c, Returned(Selected(ans.data)))
          ELSE /\ pending' = [pending EXCEPT ![c] = userDataFor(argUser[c])]
               /\ Goto(c, "capture_upsert")
               /\ UNCHANGED <<argUser, rowAtEntry, trace, outcome>>
    /\ UNCHANGED <<errIn, errOut, authUser, variant, users, sync, op, req>>

\* the upsert of the prepared userData settles
CaptureUpsert(c) ==
    /\ pc[c] = "capture_upsert"
    /\ \E fail \in UpsertFailures \cup {Absent} :
          LET r == IF fail # Absent THEN [rows |-> users, error |-> fail]
                   ELSE DbUpsert(users, pending[c])
          IN  /\ users' = r.rows
              /\ CaptureSettles(c,
                    IF r.error # Absent THEN Thrown(r.error)
                    ELSE Returned(pending[c]))
    /\ UNCHANGED <<errIn, errOut, authUser, variant, sync, op, req>>

\* the caller takes the result; the flow is free for the next operation
Ack(c) ==
    /\ pc[c] = "done"
    /\ pc' = [pc EXCEPT ![c] = "idle"]
    /\ op' = [op EXCEPT ![c] = "none"]
    /\ req' = [req EXCEPT ![c] = Absent]
    /\ argUser' = [argUser EXCEPT ![c] = NullUser]
    /\ pending' = [pending EXCEPT ![c] = Absent]
    /\ rowAtEntry' = [rowAtEntry EXCEPT ![c] = FALSE]
    /\ trace' = [trace EXCEPT ![c] = <<>>]
    /\ outcome' = [outcome EXCEPT ![c] = None]
    /\ UNCHANGED <<errIn, errOut, authUser, variant, users, sync>>

(***************************************************************************)
(* The Auth Gateway: signUp, signIn, signInWithOAuth, signOut,             *)
(* resetPasswordRequest, resetPassword.                                    *)
(***************************************************************************)
\* Answers of the auth provider: success, an error in the {data, error}
\* pair, or a rejected promise
AuthAnswers(errors) ==
    {[error |-> Absent, rejected |-> FALSE]}
    \cup {[error |-> e, rejected |-> FALSE] : e \in errors}
    \cup {[error |-> e, rejected |-> TRUE] : e \in Rejections}

\* Answers of the profile store to the lookup by email
EmailAnswers(tbl, email) ==
    {selectSingle(RowsByEmail(tbl, email))}
    \cup {[data |-> NullUser, error |-> e] : e \in LookupFailures}

\* the { message, status } object signOut and resetPassword throw
messageAndStatus(error) == [message |-> error.message, status |-> error.status]

GatewayIdle ==
    <<errIn, errOut, authUser, variant, users, sync, argUser, pending,
      rowAtEntry, outcome>>

GatewayStep ==
    <<errIn, errOut, authUser, variant, users, sync, op, req, pending,
      rowAtEntry>>

SignUp(c, email) ==
    /\ Begin(c, "signUp",
             [email |-> email,
              options |-> [emailRedirectTo |-> Origin \o "/auth/callback",
                           data |-> [full_name |-> splitFirst(email, "@"),
                                     avatar_url |-> ""]]])
    /\ Goto(c, "signUp_await")
    /\ UNCHANGED GatewayIdle

\* auth.signUp settles
SignUpSettled(c) ==
    /\ pc[c] = "signUp_await"
    /\ \E ans \in AuthAnswers(SignUpErrors) :
          /\ Log(c, Ev("auth.signUp", ans.error, ans.rejected))
          /\ IF ans.error # Absent
             THEN /\ Settle(c, Thrown(signUpCatch(ans.error)))
                  /\ UNCHANGED argUser
             ELSE \E u \in {AuthUser(authUser.id, req[c].email,
                                     req[c].options.data.full_name,
                                     req[c].options.data.avatar_url, "email"),
                            NullUser} :
                     IF u # NullUser
                     THEN /\ argUser' = [argUser EXCEPT ![c] = u]
                          /\ Goto(c, "capture_call")
                          /\ UNCHANGED outcome
                     ELSE /\ Settle(c, Returned(SessionData(u)))
                          /\ UNCHANGED argUser
    /\ UNCHANGED GatewayStep

SignIn(c, email) ==
    /\ Begin(c, "signIn", [email |-> email])
    /\ Goto(c, "signIn_await")
    /\ UNCHANGED GatewayIdle

\* auth.signInWithPassword settles
SignInSettled(c) ==
    /\ pc[c] = "signIn_await"
    /\ \E ans \in AuthAnswers(SignInErrors) :
          /\ Log(c, Ev("auth.signInWithPassword", ans.error, ans.rejected))
          /\ IF ans.error # Absent
             THEN /\ Settle(c, Thrown(ans.error))
                  /\ UNCHANGED argUser
             ELSE \E u \in {authUser, NullUser} :
                     IF u # NullUser
                     THEN /\ argUser' = [argUser EXCEPT ![c] = u]
                          /\ Goto(c, "capture_call")
                          /\ UNCHANGED outcome
                     ELSE /\ Settle(c, Returned(SessionData(u)))
                          /\ UNCHANGED argUser
    /\ UNCHANGED GatewayStep

SignInWithOAuth(c, provider, nextUrl) ==
    /\ Begin(c, "signInWithOAuth",
             [provider |-> provider,
              redirectTo |-> Origin \o "/auth/callback?next="
                                    \o JsOr(nextUrl, "/")])
    /\ Goto(c, "oauth_await")
    /\ UNCHANGED GatewayIdle

\* auth.signInWithOAuth settles
SignInWithOAuthSettled(c) ==
    /\ pc[c] = "oauth_await"
    /\ \E ans \in AuthAnswers(ProviderErrors) :
          /\ Log(c, Ev("auth.signInWithOAuth", ans.error, ans.rejected))
          /\ Settle(c, IF ans.error # Absent THEN Thrown(ans.error)
                       ELSE Returned([provider |-> req[c].provider,
                                      url |-> req[c].redirectTo]))
    /\ UNCHANGED <<argUser, GatewayStep>>

SignOut(c) ==
    /\ Begin(c, "signOut", Absent)
    /\ Goto(c, "signOut_await")
    /\ UNCHANGED GatewayIdle

\* auth.signOut settles; the access store is reset on the line after the await
SignOutSettled(c) ==
    /\ pc[c] = "signOut_await"
    /\ \E ans \in AuthAnswers(ProviderErrors) :
          IF ans.rejected
          THEN /\ Log(c, Ev("auth.signOut", ans.error, TRUE))
               /\ Settle(c, Thrown(ans.error))
          ELSE /\ trace' = [trace EXCEPT ![c] =
                              @ \o <<Ev("auth.signOut", ans.error, FALSE),
                                     Ev("accessStore.reset", Absent, FALSE)>>]
               /\ Settle(c, IF ans.error # Absent
                            THEN Thrown(messageAndStatus(ans.error))
                            ELSE Returned(Absent))
    /\ UNCHANGED <<argUser, GatewayStep>>

ResetPasswordRequest(c, email) ==
    /\ Begin(c, "resetPasswordRequest", [email |-> email])
    /\ Goto(c, "reset_lookup")
    /\ UNCHANGED GatewayIdle

\* the lookup of the profile row by email settles
ResetLookupSettled(c) ==
    /\ pc[c] = "reset_lookup"
    /\ \E ans \in EmailAnswers(users, req[c].email) :
          /\ Log(c, Ev("users.select", ans.error, FALSE))
          /\ IF ans.error # Absent /\ ans.error.code # "PGRST116"
             THEN Settle(c, Thrown(ans.error))
             ELSE IF ans.data = NullUser \/ ans.data.provider # "email"
             THEN Settle(c, Returned(GenericSuccess))
             ELSE /\ Goto(c, "reset_email")
                  /\ UNCHANGED outcome
    /\ UNCHANGED <<argUser, GatewayStep>>

\* auth.resetPasswordForEmail settles
ResetEmailSettled(c) ==
    /\ pc[c] = "reset_email"
    /\ \E ans \in AuthAnswers(ProviderErrors) :
          /\ Log(c, Ev("auth.resetPasswordForEmail", ans.error, ans.rejected))
          /\ Settle(c, IF ans.error # Absent THEN Thrown(ans.error)
                       ELSE Returned(GenericSuccess))
    /\ UNCHANGED <<argUser, GatewayStep>>

ResetPassword(c) ==
    /\ Begin(c, "resetPassword", [password |-> "new-password"])
    /\ Goto(c, "updateUser_await")
    /\ UNCHANGED GatewayIdle

\* auth.updateUser({password}) settles
ResetPasswordSettled(c) ==
    /\ pc[c] = "updateUser_await"
    /\ \E ans \in AuthAnswers(ProviderErrors) :
          /\ Log(c, Ev("auth.updateUser", ans.error, ans.rejected))
          /\ Settle(c, IF ans.error = Absent THEN Returned([user |-> authUser])
                       ELSE IF ans.rejected THEN Thrown(ans.error)
                       ELSE Thrown(messageAndStatus(ans.error)))
    /\ UNCHANGED <<argUser, GatewayStep>>

(***************************************************************************)
(* The backend trigger and the profile page's updateProfile.               *)
(***************************************************************************)
Trigger ==
    /\ authUser.id # ""
    /\ RowsOf(users, authUser.id) = {}
    /\ users' = users \cup {TriggerRow(authUser)}
    /\ UNCHANGED <<errIn, errOut, authUser, variant, sync, pc, op, req,
                   argUser, pending, rowAtEntry, trace, outcome>>

NewName == "Jane D."
NewDescription == "Kanban fan"

\* updateProfile(userId, {name, description}): the table update settles
UpdateProfileRow ==
    /\ sync = "idle"
    /\ authUser.id # ""
    /\ \E fail \in LookupFailures \cup {Absent} :
          IF fail # Absent
          THEN UNCHANGED <<users, sync>>
          ELSE /\ users' = DbUpdate(users, authUser.id, NewName, NewDescription)
               /\ sync' = "metadata"
    /\ UNCHANGED <<errIn, errOut, authUser, variant, pc, op, req, argUser,
                   pending, rowAtEntry, trace, outcome>>

\* updateProfile: auth.updateUser({data: {full_name}}) settles
UpdateProfileMetadata ==
    /\ sync = "metadata"
    /\ \E ok \in BOOLEAN :
          authUser' = IF ok
                      THEN [authUser EXCEPT !.user_metadata.full_name = NewName]
                      ELSE authUser
    /\ sync' = "idle"
    /\ UNCHANGED <<errIn, errOut, variant, users, pc, op, req, argUser,
                   pending, rowAtEntry, trace, outcome>>

(***************************************************************************)
(* Specifications.                                                         *)
(***************************************************************************)
IdleFlows ==
    /\ pc = [c \in Flows |-> "idle"]
    /\ op = [c \in Flows |-> "none"]
    /\ req = [c \in Flows |-> Absent]
    /\ argUser = [c \in Flows |-> NullUser]
    /\ pending = [c \in Flows |-> Absent]
    /\ rowAtEntry = [c \in Flows |-> FALSE]
    /\ trace = [c \in Flows |-> <<>>]
    /\ outcome = [c \in Flows |-> None]

InitBackend ==
    /\ authUser \in AuthUsers
    /\ variant \in Variants
    /\ users = {RealRow, OAuthRow}
    /\ sync = "idle"

InitNormalizer ==
    /\ errIn \in SampleErrors
    /\ errOut = NotCalled
    /\ authUser = AuthUser("u1", "jane@example.com", "", "", "")
    /\ variant = "queryFirst"
    /\ users = {RealRow, OAuthRow}
    /\ sync = "idle"
    /\ IdleFlows

Normalize ==
    /\ errOut = NotCalled
    /\ errOut' = getAuthError(errIn)
    /\ UNCHANGED <<errIn, authUser, variant, users, sync, pc, op, req,
                   argUser, pending, rowAtEntry, trace, outcome>>

NextNormalizer == Normalize

SpecNormalizer == InitNormalizer /\ [][NextNormalizer]_vars

InitReconcile ==
    /\ errIn = Absent
    /\ errOut = NotCalled
    /\ InitBackend
    /\ IdleFlows

NextReconcile ==
    \/ \E c \in Runs : StartCapture(c)
    \/ \E c \in Runs : CaptureEnter(c)
    \/ \E c \in Runs : CaptureTimer(c)
    \/ \E c \in Runs : CaptureQuery(c)
    \/ \E c \in Runs : CaptureUpsert(c)
    \/ \E c \in Runs : Ack(c)
    \/ Trigger
    \/ UpdateProfileRow
    \/ UpdateProfileMetadata

SpecReconcile == InitReconcile /\ [][NextReconcile]_vars

\* the emails the gateway is called with
Emails ==
    {"ghost@example.com", RealRow.email, OAuthRow.email, authUser.email}

Init ==
    /\ errIn = Absent
    /\ errOut = NotCalled
    /\ InitBackend
    /\ IdleFlows

Next ==
    \/ \E email \in Emails : SignUp(GatewayFlow, email)
    \/ SignUpSettled(GatewayFlow)
    \/ \E email \in Emails : SignIn(GatewayFlow, email)
    \/ SignInSettled(GatewayFlow)
    \/ \E provider \in {"github", "google"}, nextUrl \in {"", "/board"} :
          SignInWithOAuth(GatewayFlow, provider, nextUrl)
    \/ SignInWithOAuthSettled(GatewayFlow)
    \/ SignOut(GatewayFlow)
    \/ SignOutSettled(GatewayFlow)
    \/ \E email \in Emails : ResetPasswordRequest(GatewayFlow, email)
    \/ ResetLookupSettled(GatewayFlow)
    \/ ResetEmailSettled(GatewayFlow)
    \/ ResetPassword(GatewayFlow)
    \/ ResetPasswordSettled(GatewayFlow)
    \/ CaptureEnter(GatewayFlow)
    \/ CaptureTimer(GatewayFlow)
    \/ CaptureQuery(GatewayFlow)
    \/ CaptureUpsert(GatewayFlow)
    \/ Ack(GatewayFlow)
    \/ Trigger
    \/ UpdateProfileRow
    \/ UpdateProfileMetadata

Spec == Init /\ [][Next]_vars

(***************************************************************************)
(* Properties.                                                             *)
(***************************************************************************)
Done(c, o) == pc[c] = "done" /\ op[c] = o

\* the settled calls of the flow's current operation that failed
Failed(c) == {i \in 1..Len(trace[c]) : trace[c][i].error # Absent}

Jane == AuthUser("u1", "jane@example.com", "", "", "")

\* C1: resetPasswordRequest is enumeration resistant.  Two runs that differ
\* only in the row for the email get the same answers from the backend; a
\* lookup that answers from the table makes the run without a row return the
\* fixed success payload, so every completed run whose lookup answered must
\* return that payload, whatever the later backend calls do.
C1_EnumerationResistant ==
    (/\ Done(GatewayFlow, "resetPasswordRequest")
     /\ trace[GatewayFlow][1].error \in {Absent, NoRows})
    => outcome[GatewayFlow] = Returned(GenericSuccess)

\* C2: every completed signOut, returned or thrown, has called the access
\* store's reset exactly once, after the provider's sign-out call settled.
C2_SignOutResets ==
    Done(GatewayFlow, "signOut")
    => /\ Len(trace[GatewayFlow]) = 2
       /\ trace[GatewayFlow][1].call = "auth.signOut"
       /\ trace[GatewayFlow][2].call = "accessStore.reset"

\* C3: with any number of captureUserDetails runs interleaved with the
\* trigger, the users table never holds two rows with the auth user's id,
\* holds exactly one, with that id, once a run has returned, and no run
\* fails on a unique-constraint conflict.
C3_OneRowPerUser ==
    /\ Cardinality(RowsOf(users, authUser.id)) <= 1
    /\ \A c \in Runs :
          (Done(c, "capture") /\ outcome[c].kind = "returned")
          => /\ Cardinality(RowsOf(users, authUser.id)) = 1
             /\ outcome[c].value.id = authUser.id
    /\ \A c \in Runs :
          (Done(c, "capture") /\ outcome[c].kind = "thrown")
          => outcome[c].value.code # UniqueViolation.code

\* two runs have returned, one of them with the row it upserted
C3_Witness ==
    \E c1, c2 \in Runs :
       /\ c1 # c2
       /\ Done(c1, "capture") /\ outcome[c1].kind = "returned"
       /\ Done(c2, "capture") /\ outcome[c2].kind = "returned"
       /\ outcome[c1].value = userDataFor(authUser)
       /\ RowsOf(users, authUser.id) = {userDataFor(authUser)}

\* C4: a completed signUp whose provider call or whose captureUserDetails
\* failed has thrown getAuthError's output for that error, a fresh
\* {message, status} object and not the error itself; it has returned the
\* provider data only when the provider accepted and captureUserDetails,
\* run for the user the provider returned, did not fail.
C4_SignUpNormalizes ==
    Done(GatewayFlow, "signUp")
    => LET t == trace[GatewayFlow]
           o == outcome[GatewayFlow]
       IN  /\ Failed(GatewayFlow) # {}
              => /\ o.kind = "thrown"
                 /\ DOMAIN o.value = {"message", "status"}
                 /\ \E i \in Failed(GatewayFlow) :
                       /\ i = Len(t)
                       /\ o.value = getAuthError(t[i].error)
                       /\ o.value # t[i].error
           /\ o.kind = "returned"
              => /\ Failed(GatewayFlow) = {}
                 /\ t[1].call = "auth.signUp"
                 /\ o.value.user # NullUser
                    => /\ Len(t) = 2
                       /\ t[2].call = "captureUserDetails"

\* signUp has thrown after the provider accepted and the upsert was refused
C4_Witness ==
    /\ Done(GatewayFlow, "signUp")
    /\ Len(trace[GatewayFlow]) = 2
    /\ trace[GatewayFlow][1].error = Absent
    /\ trace[GatewayFlow][2].error = RlsDenied
    /\ outcome[GatewayFlow] =
          Thrown([message |-> MsgPermission, status |-> RlsDenied.status])

\* C5: a completed signIn whose provider call succeeded has returned the
\* provider's session data, whatever captureUserDetails did afterwards.
C5_SignInSurvivesCapture ==
    (Done(GatewayFlow, "signIn") /\ trace[GatewayFlow][1].error = Absent)
    => /\ outcome[GatewayFlow].kind = "returned"
       /\ outcome[GatewayFlow].value.session = "session"

\* signIn has returned although captureUserDetails threw
C5_Witness ==
    /\ Done(GatewayFlow, "signIn")
    /\ Len(trace[GatewayFlow]) = 2
    /\ trace[GatewayFlow][2].call = "captureUserDetails"
    /\ trace[GatewayFlow][2].error # Absent
    /\ outcome[GatewayFlow].kind = "returned"

\* C6: whatever a gateway operation throws is getAuthError's output for the
\* error that made it fail.
C6_AllErrorsNormalized ==
    (pc[GatewayFlow] = "done" /\ outcome[GatewayFlow].kind = "thrown")
    => \E i \in Failed(GatewayFlow) :
          outcome[GatewayFlow].value = getAuthError(trace[GatewayFlow][i].error)

\* C7: an error with code 23505 is normalized to the already-registered
\* message, whatever its message text, empty or missing included.
C7_UniqueViolationMessage ==
    (errOut # NotCalled /\ errIn # Absent /\ errIn.code = "23505")
    => errOut.message = MsgAlreadyRegistered

\* the fixed string the mapping assigns to each known code
FixedMessage(code) ==
    CASE code = "23505" -> MsgAlreadyRegistered
      [] code = "auth/email-already-in-use" -> MsgAlreadyInUse
      [] code = "email-already-in-use" -> MsgAlreadyInUse
      [] code = "auth/invalid-email" -> MsgInvalidEmail
      [] code = "auth/weak-password" -> MsgWeakPassword
      [] code = "auth/user-not-found" -> MsgNoAccount
      [] code = "auth/wrong-password" -> MsgWrongPassword
      [] code = "user-not-found" -> MsgAccountNotFound

\* C8: for an error with a known code the returned message is the fixed
\* string of that code; the message heuristics decide only without one.
\* Stated for the errors that carry a message text: an error without one
\* is C7's case.
C8_CodePriority ==
    (/\ errOut # NotCalled /\ errIn # Absent
     /\ errIn.code \in KnownCodes /\ errIn.message # "")
    => errOut.message = FixedMessage(errIn.code)

\* n is the part of email before its first "@" (all of it without one)
IsLocalPart(n, email) ==
    /\ ~includes(n, "@")
    /\ Len(n) <= Len(email)
    /\ SubSeq(email, 1, Len(n)) = n
    /\ Len(n) < Len(email) => SubSeq(email, Len(n) + 1, Len(n) + 1) = "@"

\* C9: the row captureUserDetails is about to upsert has the auth user's
\* id, name = full name, else the email's local part, else "User",
\* avatar = the avatar URL or empty, an empty description, and
\* provider = the app-metadata provider, else "email"; Jane without
\* metadata gets name "jane" and provider "email".
C9_DefaultFields ==
    \A c \in Runs :
       pc[c] = "capture_upsert"
       => LET u == argUser[c]
              row == pending[c]
          IN  /\ row.id = u.id
              /\ IF u.user_metadata.full_name # ""
                 THEN row.name = u.user_metadata.full_name
                 ELSE IF ~IsLocalPart("", u.email)
                 THEN IsLocalPart(row.name, u.email)
                 ELSE row.name = "User"
              /\ row.avatar = u.user_metadata.avatar_url
              /\ row.description = ""
              /\ IF u.app_metadata.provider # ""
                 THEN row.provider = u.app_metadata.provider
                 ELSE row.provider = "email"
              /\ u = Jane => row.name = "jane" /\ row.provider = "email"

\* a wait-then-query run has upserted and returned the row of an OAuth user
C9_Witness ==
    \E c \in Runs :
       /\ variant = "waitThenQuery"
       /\ Done(c, "capture")
       /\ outcome[c] = Returned(Row("u1", "jane@example.com", "Jane Doe",
                                    "https://cdn.example/j.png", "", "github"))
       /\ outcome[c].value \in users

\* C10: a captureUserDetails run that found the profile row present when it
\* was entered leaves the rows with that id as they are when its upsert
\* settles (it reaches the upsert only through its lookup's outcome).
C10_NoOverwrite ==
    [][\A c \in Runs :
          (pc[c] = "capture_upsert" /\ pc'[c] = "done" /\ rowAtEntry[c])
          => RowsOf(users', argUser[c].id) = RowsOf(users, argUser[c].id)]_vars

=============================================================================
